---- MODULE Spec2Model ----
(***************************************************************************)
(* A model of the stack virtual machine of src/src/main.rs: the VM struct  *)
(* (fixed-capacity stack, program, instruction pointer, halted flag), its  *)
(* push / pop / execute methods and the driver loop of main.               *)
(*                                                                         *)
(* Word values are Rust i32.  TLC's integers are 32-bit as well, so every  *)
(* arithmetic helper below detects overflow before computing and computes  *)
(* the wrapped result without leaving the i32 range.                       *)
(***************************************************************************)
EXTENDS Integers, Sequences, FiniteSets, TLC

\* const STACK_CAPACITY: usize = 1024;
STACK_CAPACITY == 1024

\* i32::MIN and i32::MAX, the range of Word.value
I32_MIN == -2147483647 - 1
I32_MAX == 2147483647

\* main: let mut number_of_inst_to_execute: u128 = 69;
STEP_BUDGET == 69

(***************************************************************************)
(* Bounds of the model.                                                    *)
(***************************************************************************)
\* Calls of push / pop / execute made by a caller after the program is loaded
MaxCalls == 4
\* Fill leaves this many slots free below the capacity
FillGap == 1
\* Calls of execute made by a caller that runs the program of main
MaxSteps == 190

(***************************************************************************)
(* i32 arithmetic.  A result is [value, overflow]: value is the wrapping   *)
(* (two's complement) result, overflow says the exact result is outside    *)
(* the i32 range.  With overflow checks (a debug build) an overflowing     *)
(* + - * panics; without (a release build) it wraps.  i32::MIN / -1        *)
(* panics in every build.                                                  *)
(***************************************************************************)
i32_add(a, b) ==
    IF b > 0 /\ a > I32_MAX - b
      THEN [value |-> (a + I32_MIN) + (b + I32_MIN), overflow |-> TRUE]
    ELSE IF b < 0 /\ a < I32_MIN - b
      THEN [value |-> (a - I32_MIN) + (b - I32_MIN), overflow |-> TRUE]
    ELSE [value |-> a + b, overflow |-> FALSE]

i32_sub(a, b) ==
    IF b < 0 /\ a > I32_MAX + b
      THEN [value |-> (a + I32_MIN) - (b - I32_MIN), overflow |-> TRUE]
    ELSE IF b > 0 /\ a < I32_MIN + b
      THEN [value |-> (a - I32_MIN) - (b + I32_MIN), overflow |-> TRUE]
    ELSE [value |-> a - b, overflow |-> FALSE]

\* a / b of Rust for b # 0 and (a, b) # (i32::MIN, -1): truncation toward zero
i32_quot(a, b) ==
    IF b = I32_MIN THEN (IF a = I32_MIN THEN 1 ELSE 0)
    ELSE LET d == IF b < 0 THEN -b ELSE b
             f == a \div d
             q == IF a < 0 /\ a % d # 0 THEN f + 1 ELSE f
         IN  IF b < 0 THEN -q ELSE q

\* the 16-bit halves of the two's complement representation of an i32
hi16(a) == IF a < 0 THEN (a - I32_MIN) \div 65536 + 32768 ELSE a \div 65536
lo16(a) == a % 65536

\* (x * y) % 65536 for 16-bit x and y, through the bytes of y
mul16_lo(x, y) == (x * (y % 256) + ((x * (y \div 256)) % 256) * 256) % 65536

\* (x * y) \div 65536 for 16-bit x and y, through the bytes of y
mul16_hi(x, y) ==
    LET t0 == x * (y % 256)
        t1 == x * (y \div 256)
    IN  t1 \div 256 + (t0 + (t1 % 256) * 256) \div 65536

\* the low 32 bits of a * b, as an i32 (wrapping multiplication)
wrap_mul(a, b) ==
    LET lo == mul16_lo(lo16(a), lo16(b))
        hi == (mul16_hi(lo16(a), lo16(b)) + mul16_lo(hi16(a), lo16(b))
                 + mul16_lo(lo16(a), hi16(b))) % 65536
    IN  IF hi >= 32768 THEN (hi - 65536) * 65536 + lo ELSE hi * 65536 + lo

i32_mul(a, b) ==
    LET r == wrap_mul(a, b)
        exact == \/ a = 0
                 \/ b = 0
                 \/ /\ ~(a = -1 /\ b = I32_MIN)
                    /\ ~(b = -1 /\ a = I32_MIN)
                    /\ ~(a = -1 /\ r = I32_MIN)
                    /\ i32_quot(r, a) = b
    IN  [value |-> r, overflow |-> ~exact]

(***************************************************************************)
(* Values of the program's types.                                          *)
(***************************************************************************)
\* Option<Word> / Option<()>
None == [some |-> FALSE, value |-> 0]
Some(w) == [some |-> TRUE, value |-> w]

\* enum Trap.  "Panic" is no Trap: it marks a call that aborted the process
\* (an arithmetic panic) instead of returning.
Trap == {"TrapStackOverflow", "TrapStackUnderflow", "NoTrap",
         "TrapDivisionByZero", "TrapIllegalAccess"}

\* enum InstructionType
InstructionType == {"Push", "Pop", "Dup", "Plus", "Minus", "Mult", "Div",
                    "JMP", "JMP_IF", "JMP_EQ", "Halt"}

\* Instruction::new(inst_type, operand)
Instruction(t, v) == [inst_type |-> t, operand |-> v]

\* VM::new()
new ==
    [data |-> [i \in 0 .. STACK_CAPACITY - 1 |-> 0],
     instruction_pointer |-> 0,
     program |-> << >>,
     size |-> 0,
     is_halted |-> FALSE]

(***************************************************************************)
(* VM::push and VM::pop: the machine after the call and the value returned *)
(***************************************************************************)
\* mutant: the capacity test is off by one
push_off_by_one(m, word) ==
    IF m.size >= STACK_CAPACITY - 1
      THEN [vm |-> m, ret |-> None]
      ELSE [vm |-> [m EXCEPT !.data[m.size] = word, !.size = m.size + 1],
            ret |-> Some(0)]

push(m, word) ==
    IF m.size = STACK_CAPACITY
      THEN [vm |-> m, ret |-> None]
      ELSE [vm |-> [m EXCEPT !.data[m.size] = word, !.size = m.size + 1],
            ret |-> Some(0)]

\* mutant: the size is decremented before the emptiness test is acted on
pop_decrement_first(m) ==
    IF m.size = 0
      THEN [vm |-> [m EXCEPT !.size = m.size - 1], ret |-> None]
      ELSE [vm |-> [m EXCEPT !.size = m.size - 1],
            ret |-> Some(m.data[m.size - 1])]

\* mutant: the top word is returned but the size is not decremented
pop_no_decrement(m) ==
    IF m.size = 0
      THEN [vm |-> m, ret |-> None]
      ELSE [vm |-> m, ret |-> Some(m.data[m.size - 1])]

pop(m) ==
    IF m.size = 0
      THEN [vm |-> m, ret |-> None]
      ELSE [vm |-> [m EXCEPT !.size = m.size - 1],
            ret |-> Some(m.data[m.size - 1])]

(***************************************************************************)
(* VM::execute, one arm of the match per definition.  Each yields the      *)
(* machine after the call and the Trap returned; trap "Panic" means the    *)
(* call did not return (the process aborted) and vm is the machine at the  *)
(* panic.  checks: whether the build panics on + - * overflow, that of     *)
(* the instruction pointer included.                                       *)
(***************************************************************************)
Outcome(m, t) == [vm |-> m, trap |-> t]

\* self.instruction_pointer.value += 1 on an i32: past i32::MAX it panics in a
\* build with overflow checks and wraps to i32::MIN in a build without
advance_overflows(m) == i32_add(m.instruction_pointer, 1).overflow

advance(m) ==
    [m EXCEPT !.instruction_pointer = i32_add(m.instruction_pointer, 1).value]

\* the instruction pointer cannot be advanced in this build: the call panics
advance_panics(m, checks) == checks /\ advance_overflows(m)

\* self.instruction_pointer.value as usize >= self.program.len()
fetch_fails(m) ==
    m.instruction_pointer < 0 \/ m.instruction_pointer >= Len(m.program)

\* mutant: a failed fetch restarts the program
illegal_access_restarts(m) ==
    Outcome([m EXCEPT !.instruction_pointer = 0], "TrapIllegalAccess")

\* return Trap::TrapIllegalAccess, before anything is read or written
illegal_access(m) == Outcome(m, "TrapIllegalAccess")

\* self.program[ip]
fetch(m) == m.program[m.instruction_pointer + 1]

\* the shared tail of Plus, Minus, Mult and Div: push(result)
push_result(m, r, checks) ==
    IF r.overflow /\ checks
      THEN Outcome(m, "Panic")
      ELSE LET p == push(m, r.value)
           IN  IF ~p.ret.some THEN Outcome(p.vm, "TrapStackOverflow")
                              ELSE Outcome(p.vm, "NoTrap")

execute_Push(m, inst, checks) ==
    IF advance_panics(m, checks) THEN Outcome(m, "Panic") ELSE
    LET p == push(advance(m), inst.operand)
    IN  IF ~p.ret.some THEN Outcome(p.vm, "TrapStackOverflow")
                       ELSE Outcome(p.vm, "NoTrap")

\* mutant: Plus looks at the size before it touches anything
execute_Plus_checks_size_first(m, checks) ==
    IF advance_panics(m, checks) THEN Outcome(m, "Panic") ELSE
    IF m.size < 2
      THEN Outcome(m, "TrapStackUnderflow")
      ELSE LET a == pop(advance(m))
               b == pop(a.vm)
           IN  push_result(b.vm, i32_add(a.ret.value, b.ret.value), checks)

execute_Plus(m, checks) ==
    IF advance_panics(m, checks) THEN Outcome(m, "Panic") ELSE
    LET a == pop(advance(m))
        b == pop(a.vm)
    IN  IF a.ret.some /\ b.ret.some
          THEN push_result(b.vm, i32_add(a.ret.value, b.ret.value), checks)
          ELSE Outcome(b.vm, "TrapStackUnderflow")

\* mutant: Pop tries the pop before it advances the instruction pointer
execute_Pop_late_advance(m, checks) ==
    LET p == pop(m)
    IN  IF ~p.ret.some THEN Outcome(p.vm, "TrapStackUnderflow")
                  ELSE IF advance_panics(p.vm, checks) THEN Outcome(p.vm, "Panic")
                       ELSE Outcome(advance(p.vm), "NoTrap")

execute_Pop(m, checks) ==
    IF advance_panics(m, checks) THEN Outcome(m, "Panic") ELSE
    LET p == pop(advance(m))
    IN  IF ~p.ret.some THEN Outcome(p.vm, "TrapStackUnderflow")
                       ELSE Outcome(p.vm, "NoTrap")

\* mutant: the operand is compared as a signed number
dup_out_of_range_signed(m, n) == n >= m.size

\* (value.value as usize) >= self.size: a negative operand casts to a huge usize
dup_out_of_range(m, n) == n < 0 \/ n >= m.size

\* mutant: the depth is counted from the bottom of the stack
execute_Dup_from_bottom(m, inst, checks) ==
    IF advance_panics(m, checks) THEN Outcome(m, "Panic") ELSE
    LET m1 == advance(m)
        n == inst.operand
    IN  IF dup_out_of_range(m1, n)
          THEN Outcome(m1, "TrapIllegalAccess")
          ELSE LET p == push(m1, m1.data[n])
               IN  IF ~p.ret.some THEN Outcome(p.vm, "TrapStackOverflow")
                                  ELSE Outcome(p.vm, "NoTrap")

execute_Dup(m, inst, checks) ==
    IF advance_panics(m, checks) THEN Outcome(m, "Panic") ELSE
    LET m1 == advance(m)
        n == inst.operand
    IN  IF dup_out_of_range(m1, n)
          THEN Outcome(m1, "TrapIllegalAccess")
          ELSE LET p == push(m1, m1.data[m1.size - 1 - n])
               IN  IF ~p.ret.some THEN Outcome(p.vm, "TrapStackOverflow")
                                  ELSE Outcome(p.vm, "NoTrap")

execute_Minus(m, checks) ==
    IF advance_panics(m, checks) THEN Outcome(m, "Panic") ELSE
    LET a == pop(advance(m))
        b == pop(a.vm)
    IN  IF a.ret.some /\ b.ret.some
          THEN push_result(b.vm, i32_sub(a.ret.value, b.ret.value), checks)
          ELSE Outcome(b.vm, "TrapStackUnderflow")

execute_Mult(m, checks) ==
    IF advance_panics(m, checks) THEN Outcome(m, "Panic") ELSE
    LET a == pop(advance(m))
        b == pop(a.vm)
    IN  IF a.ret.some /\ b.ret.some
          THEN push_result(b.vm, i32_mul(a.ret.value, b.ret.value), checks)
          ELSE Outcome(b.vm, "TrapStackUnderflow")

\* the divisor tested against zero is b, the word popped second
div_by_zero(a, b) == b = 0

\* mutant: the divisor is tested after the first pop only, so a zero divisor
\* leaves the second operand on the stack
execute_Div_one_pop(m, checks) ==
    IF advance_panics(m, checks) THEN Outcome(m, "Panic") ELSE
    LET a == pop(advance(m))
        b == pop(a.vm)
    IN  IF a.ret.some /\ b.ret.some
          THEN IF div_by_zero(a.ret.value, b.ret.value)
                 THEN Outcome(a.vm, "TrapDivisionByZero")
               ELSE IF a.ret.value = I32_MIN /\ b.ret.value = -1
                 THEN Outcome(b.vm, "Panic")
               ELSE push_result(b.vm,
                        [value |-> i32_quot(a.ret.value, b.ret.value),
                         overflow |-> FALSE], FALSE)
          ELSE Outcome(b.vm, "TrapStackUnderflow")

\* mutant: the operands in the other order, the word below the top divided
\* by the top word
execute_Div_swapped(m, checks) ==
    IF advance_panics(m, checks) THEN Outcome(m, "Panic") ELSE
    LET a == pop(advance(m))
        b == pop(a.vm)
    IN  IF a.ret.some /\ b.ret.some
          THEN IF div_by_zero(b.ret.value, a.ret.value)
                 THEN Outcome(b.vm, "TrapDivisionByZero")
               ELSE IF b.ret.value = I32_MIN /\ a.ret.value = -1
                 THEN Outcome(b.vm, "Panic")
               ELSE push_result(b.vm,
                        [value |-> i32_quot(b.ret.value, a.ret.value),
                         overflow |-> FALSE], FALSE)
          ELSE Outcome(b.vm, "TrapStackUnderflow")

execute_Div(m, checks) ==
    IF advance_panics(m, checks) THEN Outcome(m, "Panic") ELSE
    LET a == pop(advance(m))
        b == pop(a.vm)
    IN  IF a.ret.some /\ b.ret.some
          THEN IF div_by_zero(a.ret.value, b.ret.value)
                 THEN Outcome(b.vm, "TrapDivisionByZero")
               ELSE IF a.ret.value = I32_MIN /\ b.ret.value = -1
                 \* i32::MIN / -1 panics whatever the build
                 THEN Outcome(b.vm, "Panic")
               ELSE push_result(b.vm,
                        [value |-> i32_quot(a.ret.value, b.ret.value),
                         overflow |-> FALSE], FALSE)
          ELSE Outcome(b.vm, "TrapStackUnderflow")

\* mutant: the target is checked at jump time
execute_JMP_checked(m, inst) ==
    IF inst.operand < 0 \/ inst.operand >= Len(m.program)
      THEN Outcome(m, "TrapIllegalAccess")
      ELSE Outcome([m EXCEPT !.instruction_pointer = inst.operand], "NoTrap")

execute_JMP(m, inst) ==
    Outcome([m EXCEPT !.instruction_pointer = inst.operand], "NoTrap")

execute_JMP_IF(m, inst, checks) ==
    LET condition == pop(m)
    IN  IF condition.ret.some
          THEN IF condition.ret.value # 0
                 THEN Outcome([condition.vm EXCEPT
                                 !.instruction_pointer = inst.operand], "NoTrap")
               ELSE IF advance_panics(condition.vm, checks)
                 THEN Outcome(condition.vm, "Panic")
                 ELSE Outcome(advance(condition.vm), "NoTrap")
          ELSE Outcome(condition.vm, "TrapStackUnderflow")

\* mutant: both compared words are popped
execute_JMP_EQ_pops_both(m, inst, checks) ==
    IF m.size < 2
      THEN Outcome(m, "TrapStackUnderflow")
      ELSE LET a == m.data[m.size - 1]
               b == m.data[m.size - 2]
               m1 == IF a = b
                       THEN [m EXCEPT !.instruction_pointer = inst.operand]
                       ELSE advance(m)
           IN  IF a # b /\ advance_panics(m, checks)
                 THEN Outcome(m, "Panic")
                 ELSE Outcome(pop(pop(m1).vm).vm, "NoTrap")

execute_JMP_EQ(m, inst, checks) ==
    IF m.size < 2
      THEN Outcome(m, "TrapStackUnderflow")
      ELSE LET a == m.data[m.size - 1]
               b == m.data[m.size - 2]
               m1 == IF a = b
                       THEN [m EXCEPT !.instruction_pointer = inst.operand]
                       ELSE advance(m)
           IN  IF a # b /\ advance_panics(m, checks)
                 THEN Outcome(m, "Panic")
                 ELSE Outcome(pop(m1).vm, "NoTrap")

\* mutant: Halt advances the instruction pointer like the other instructions
execute_Halt_advances(m) ==
    Outcome(advance([m EXCEPT !.is_halted = TRUE]), "NoTrap")

execute_Halt(m) == Outcome([m EXCEPT !.is_halted = TRUE], "NoTrap")

execute(m, checks) ==
    IF fetch_fails(m)
      THEN illegal_access(m)
      ELSE LET inst == fetch(m)
           IN  CASE inst.inst_type = "Push"   -> execute_Push(m, inst, checks)
                 [] inst.inst_type = "Plus"   -> execute_Plus(m, checks)
                 [] inst.inst_type = "Pop"    -> execute_Pop(m, checks)
                 [] inst.inst_type = "Dup"    -> execute_Dup(m, inst, checks)
                 [] inst.inst_type = "Minus"  -> execute_Minus(m, checks)
                 [] inst.inst_type = "Mult"   -> execute_Mult(m, checks)
                 [] inst.inst_type = "Div"    -> execute_Div(m, checks)
                 [] inst.inst_type = "JMP"    -> execute_JMP(m, inst)
                 [] inst.inst_type = "JMP_IF" -> execute_JMP_IF(m, inst, checks)
                 [] inst.inst_type = "JMP_EQ" -> execute_JMP_EQ(m, inst, checks)
                 [] inst.inst_type = "Halt"   -> execute_Halt(m)

(***************************************************************************)
(* Inputs: the programs a caller loads and the words it pushes.            *)
(***************************************************************************)
\* the program of main
MainProgram ==
    << Instruction("Push", 0), Instruction("Push", 1), Instruction("Dup", 1),
       Instruction("Dup", 1), Instruction("Plus", 0), Instruction("JMP", 2) >>

\* the scenario programs of the specification, and the division with the
\* operands pushed in the other order
ProgramB == << Instruction("Push", 5), Instruction("Push", 0), Instruction("Div", 0) >>
ProgramB2 == << Instruction("Push", 0), Instruction("Push", 5), Instruction("Div", 0) >>
ProgramC == << Instruction("Pop", 0) >>
ProgramD == << Instruction("Halt", 0) >>

\* operands of the one-instruction programs: a dup depth or a jump target
Operands == {-1, 0, 1, 2}

OneInstruction ==
    { << Instruction(t, 0) >> : t \in {"Plus", "Minus", "Mult", "Div"} }
      \cup { << Instruction(t, v) >> :
               t \in {"Push", "Dup", "JMP", "JMP_IF", "JMP_EQ"}, v \in Operands }

\* programs whose arithmetic result is outside the i32 range:
\* i32::MAX + 1, i32::MIN - 1, 65536 * 65536 and i32::MIN / -1
OverflowPrograms ==
    { << Instruction("Push", 1), Instruction("Push", I32_MAX), Instruction("Plus", 0) >>,
      << Instruction("Push", 1), Instruction("Push", I32_MIN), Instruction("Minus", 0) >>,
      << Instruction("Push", 65536), Instruction("Push", 65536), Instruction("Mult", 0) >>,
      << Instruction("Push", -1), Instruction("Push", I32_MIN), Instruction("Div", 0) >> }

Programs ==
    {<< >>, MainProgram, ProgramB, ProgramB2, ProgramC, ProgramD}
      \cup OneInstruction \cup OverflowPrograms

\* words a caller pushes directly
Words == {0, 7}

\* the word the filling loop pushes at index i
FillWord(i) == i + 1

(***************************************************************************)
(* State.                                                                  *)
(*   vm     the VM struct                                                  *)
(*   number_of_inst_to_execute   main's step budget                        *)
(*   pc     "new": constructed, no program attached; "loop": program       *)
(*          attached, calls may follow (for main: at the head of the       *)
(*          while loop); "exit": main has left its loop; "aborted": a      *)
(*          call panicked                                                  *)
(*   hist   history: one record per call of push, pop or execute, with the *)
(*          stack size and instruction pointer before the call and what    *)
(*          the call returned                                              *)
(*   calls  history: number of calls a caller made directly                *)
(***************************************************************************)
VARIABLES vm, number_of_inst_to_execute, pc, hist, calls

vars == <<vm, number_of_inst_to_execute, pc, hist, calls>>

NoInstruction == Instruction("none", 0)

PushCall(m, word, r) ==
    [op |-> "push", word |-> word, inst |-> NoInstruction,
     size |-> m.size, ip |-> m.instruction_pointer, ret |-> r.ret, trap |-> "none"]

PopCall(m, r) ==
    [op |-> "pop", word |-> 0, inst |-> NoInstruction,
     size |-> m.size, ip |-> m.instruction_pointer, ret |-> r.ret, trap |-> "none"]

ExecuteCall(m, r) ==
    [op |-> "execute", word |-> 0,
     inst |-> IF fetch_fails(m) THEN NoInstruction ELSE fetch(m),
     size |-> m.size, ip |-> m.instruction_pointer, ret |-> None, trap |-> r.trap]

Init ==
    /\ vm = new
    /\ number_of_inst_to_execute = STEP_BUDGET
    /\ pc = "new"
    /\ hist = << >>
    /\ calls = 0

\* vm.program = insts
Load(p) ==
    /\ pc = "new"
    /\ vm' = [vm EXCEPT !.program = p]
    /\ pc' = "loop"
    /\ UNCHANGED <<number_of_inst_to_execute, hist, calls>>

\* a caller's vm.push(Word { value: w })
Push(w) ==
    /\ pc = "loop"
    /\ calls < MaxCalls
    /\ LET r == push(vm, w)
       IN  /\ vm' = r.vm
           /\ hist' = Append(hist, PushCall(vm, w, r))
    /\ calls' = calls + 1
    /\ UNCHANGED <<number_of_inst_to_execute, pc>>

\* a caller's vm.pop()
Pop ==
    /\ pc = "loop"
    /\ calls < MaxCalls
    /\ LET r == pop(vm)
       IN  /\ vm' = r.vm
           /\ hist' = Append(hist, PopCall(vm, r))
    /\ calls' = calls + 1
    /\ UNCHANGED <<number_of_inst_to_execute, pc>>

\* pushes in a row until size = n: push(FillWord(size)) while size < n
\* (the run is split in halves to keep the evaluation shallow)
RECURSIVE fill(_, _, _)
fill(m, h, n) ==
    IF m.size >= n THEN [vm |-> m, hist |-> h]
    ELSE IF m.size + 1 = n
      THEN LET w == FillWord(m.size)
               r == push(m, w)
           IN  [vm |-> r.vm, hist |-> Append(h, PushCall(m, w, r))]
    ELSE LET half == fill(m, h, (m.size + n) \div 2)
         IN  fill(half.vm, half.hist, n)

\* a caller fills the empty stack up to FillGap slots below the capacity
Fill ==
    /\ pc = "loop"
    /\ calls = 0
    /\ vm.size = 0
    /\ LET r == fill(vm, hist, STACK_CAPACITY - FillGap)
       IN  /\ vm' = r.vm
           /\ hist' = r.hist
    /\ UNCHANGED <<number_of_inst_to_execute, pc, calls>>

\* a caller's vm.execute(), in a build with or without overflow checks
Execute ==
    /\ pc = "loop"
    /\ calls < MaxCalls
    /\ \E checks \in BOOLEAN :
         LET r == execute(vm, checks)
         IN  /\ vm' = r.vm
             /\ hist' = Append(hist, ExecuteCall(vm, r))
             /\ pc' = IF r.trap = "Panic" THEN "aborted" ELSE pc
    /\ calls' = calls + 1
    /\ UNCHANGED number_of_inst_to_execute

Next ==
    \/ \E p \in Programs : Load(p)
    \/ \E w \in Words : Push(w)
    \/ Pop
    \/ Fill
    \/ Execute

Spec == Init /\ [][Next]_vars

\* mutant: the loop body without its breaks
DriverStep_no_break ==
    /\ pc = "loop"
    /\ ~vm.is_halted /\ number_of_inst_to_execute # 0
    /\ number_of_inst_to_execute' = number_of_inst_to_execute - 1
    /\ \E checks \in BOOLEAN :
         LET r == execute(vm, checks)
         IN  /\ vm' = r.vm
             /\ hist' = Append(hist, ExecuteCall(vm, r))
             /\ pc' = IF r.trap = "Panic" THEN "aborted" ELSE "loop"
    /\ UNCHANGED calls

\* one iteration of main's while loop: the body runs execute once and breaks
\* on every trap but NoTrap
DriverStep ==
    /\ pc = "loop"
    /\ ~vm.is_halted /\ number_of_inst_to_execute # 0
    /\ number_of_inst_to_execute' = number_of_inst_to_execute - 1
    /\ \E checks \in BOOLEAN :
         LET r == execute(vm, checks)
         IN  /\ vm' = r.vm
             /\ hist' = Append(hist, ExecuteCall(vm, r))
             /\ pc' = CASE r.trap = "Panic"  -> "aborted"
                        [] r.trap = "NoTrap" -> "loop"
                        [] OTHER             -> "exit"
    /\ UNCHANGED calls

\* the loop condition fails: main returns
DriverExit ==
    /\ pc = "loop"
    /\ ~(~vm.is_halted /\ number_of_inst_to_execute # 0)
    /\ pc' = "exit"
    /\ UNCHANGED <<vm, number_of_inst_to_execute, hist, calls>>

NextDriver ==
    \/ \E p \in Programs : Load(p)
    \/ DriverStep
    \/ DriverExit

SpecDriver == Init /\ [][NextDriver]_vars /\ WF_vars(DriverStep \/ DriverExit)

(***************************************************************************)
(* A caller that loads the program of main and calls execute up to         *)
(* MaxSteps times.                                                         *)
(***************************************************************************)
\* a caller's vm.execute(), in a build with or without overflow checks
Run ==
    /\ pc = "loop"
    /\ calls < MaxSteps
    /\ \E checks \in BOOLEAN :
         LET r == execute(vm, checks)
         IN  /\ vm' = r.vm
             /\ hist' = Append(hist, ExecuteCall(vm, r))
             /\ pc' = IF r.trap = "Panic" THEN "aborted" ELSE pc
    /\ calls' = calls + 1
    /\ UNCHANGED number_of_inst_to_execute

NextRun ==
    \/ Load(MainProgram)
    \/ Run

SpecRun == Init /\ [][NextRun]_vars

(***************************************************************************)
(* Reading the history.                                                    *)
(***************************************************************************)
Last == hist[Len(hist)]

\* the stack size and the instruction pointer right after call i returned
SizeAfter(i) == IF i < Len(hist) THEN hist[i + 1].size ELSE vm.size
IpAfter(i) == IF i < Len(hist) THEN hist[i + 1].ip ELSE vm.instruction_pointer

\* every call so far was an execute
OnlyExecutes == \A i \in 1 .. Len(hist) : hist[i].op = "execute"

\* this step is one call of op (a call appends one record to the history)
CallStep(op) ==
    /\ Len(hist') = Len(hist) + 1
    /\ hist'[Len(hist')].op = op

\* this step is an execute that fetches an instruction of type t
ExecutesInst(t) ==
    /\ CallStep("execute")
    /\ ~fetch_fails(vm)
    /\ fetch(vm).inst_type = t

(***************************************************************************)
(* C1: in every state reachable from a fresh machine by push, pop and      *)
(* execute calls, under any loaded program, 0 <= size <= capacity.         *)
(***************************************************************************)
C1_SizeInRange == vm.size >= 0 /\ vm.size <= STACK_CAPACITY

\* the stack is full and an execute (of a Push or Dup) was refused
C1_Witness ==
    /\ hist # << >>
    /\ vm.size = STACK_CAPACITY
    /\ Last.op = "execute"
    /\ Last.trap = "TrapStackOverflow"

(***************************************************************************)
(* C2: running [Push(5), Push(0), Div] from a fresh machine, repeated      *)
(* execute calls yield exactly one call returning DivisionByZero, the      *)
(* third, and size == 0 after that call.                                   *)
(* (The statement as claimed; the code divides the top, 0, by the word     *)
(* below it, 5.)                                                           *)
(***************************************************************************)
DivisionByZeroCalls ==
    {i \in 1 .. Len(hist) : hist[i].trap = "TrapDivisionByZero"}

C2_Original ==
    (vm.program = ProgramB /\ OnlyExecutes /\ Len(hist) >= 3)
        => (DivisionByZeroCalls = {3} /\ SizeAfter(3) = 0)

(***************************************************************************)
(* C2, amended: running [Push(5), Push(0), Div] no execute call returns    *)
(* DivisionByZero: the third call divides the top word 0 by the word below *)
(* it, 5, returns NoTrap and leaves size == 1 with 0 on top.  It is the    *)
(* program [Push(0), Push(5), Div] whose third call, and only that one,    *)
(* returns DivisionByZero, with size == 0 after it.                        *)
(***************************************************************************)
C2_Amended ==
    /\ (vm.program = ProgramB /\ OnlyExecutes /\ Len(hist) >= 3)
          => /\ DivisionByZeroCalls = {}
             /\ hist[3].trap = "NoTrap"
             /\ SizeAfter(3) = 1
             /\ vm.data[0] = 0
    /\ (vm.program = ProgramB2 /\ OnlyExecutes /\ Len(hist) >= 3)
          => /\ DivisionByZeroCalls = {3}
             /\ SizeAfter(3) = 0

\* the Div of [Push(0), Push(5), Div] has run and trapped, and a further
\* execute call was made after it
C2_Witness ==
    /\ vm.program = ProgramB2
    /\ OnlyExecutes
    /\ Len(hist) >= 4
    /\ hist[3].inst.inst_type = "Div"
    /\ hist[3].trap = "TrapDivisionByZero"

(***************************************************************************)
(* C3: running [Pop] on a fresh machine, the first execute call returns    *)
(* StackUnderflow and the instruction pointer is still 0 after the call.   *)
(* (The statement as claimed; the code advances ip before it pops.)        *)
(***************************************************************************)
C3_Original ==
    (vm.program = ProgramC /\ Len(hist) >= 1 /\ hist[1].op = "execute")
        => (hist[1].trap = "TrapStackUnderflow" /\ IpAfter(1) = 0)

(***************************************************************************)
(* C3, amended: running [Pop] on a fresh machine, the first execute call   *)
(* returns StackUnderflow with the stack still empty, and the instruction  *)
(* pointer is 1 after the call: Pop advances ip before it pops.            *)
(***************************************************************************)
C3_Amended ==
    (vm.program = ProgramC /\ Len(hist) >= 1 /\ hist[1].op = "execute")
        => /\ hist[1].trap = "TrapStackUnderflow"
           /\ hist[1].ip = 0
           /\ IpAfter(1) = 1
           /\ SizeAfter(1) = 0

\* the first call on the machine loaded with [Pop] was an execute that
\* fetched the Pop with the stack empty
C3_Witness ==
    /\ vm.program = ProgramC
    /\ Len(hist) = 1
    /\ hist[1].op = "execute"
    /\ hist[1].inst.inst_type = "Pop"
    /\ hist[1].size = 0

(***************************************************************************)
(* C4: whenever execute runs a Div with size >= 2 and the second-from-top  *)
(* word equal to 0, it returns DivisionByZero, pushes nothing (no slot is  *)
(* written) and leaves size reduced by exactly 2.                          *)
(***************************************************************************)
C4_DivByZero ==
    [][(ExecutesInst("Div") /\ vm.size >= 2 /\ vm.data[vm.size - 2] = 0)
          => /\ hist'[Len(hist')].trap = "TrapDivisionByZero"
             /\ vm'.size = vm.size - 2
             /\ vm'.data = vm.data]_vars

\* a Div trapped on a zero divisor below a non-zero top word, with a third
\* word beneath the two operands
C4_Witness ==
    /\ hist # << >>
    /\ Last.op = "execute"
    /\ Last.inst.inst_type = "Div"
    /\ Last.trap = "TrapDivisionByZero"
    /\ Last.size >= 3
    /\ vm.size = Last.size - 2
    /\ vm.data[Last.size - 1] # 0

(***************************************************************************)
(* C5: in a run of the driver loop, for any program, a terminal condition  *)
(* is permanent: after the first execute that returns a trap other than    *)
(* NoTrap (or that panics), or once halted is true, execute is never       *)
(* invoked again and stack, size, ip and halted never change; and the      *)
(* program [Halt] ends after exactly one execute call with halted == true  *)
(* and step budget left.                                                   *)
(***************************************************************************)
Terminal ==
    \/ vm.is_halted
    \/ hist # << >> /\ Last.op = "execute" /\ Last.trap # "NoTrap"

C5_TerminalIsPermanent ==
    /\ [][Terminal => (vm' = vm /\ hist' = hist)]_vars
    /\ []((vm.program = ProgramD /\ pc = "exit")
            => /\ Len(hist) = 1
               /\ hist[1].inst.inst_type = "Halt"
               /\ vm.is_halted
               /\ number_of_inst_to_execute = STEP_BUDGET - 1)
    /\ ((pc = "loop" /\ vm.program = ProgramD) ~> (pc = "exit"))

\* main has left its loop after a trap, with step budget left and more than
\* one execute call made
C5_Witness ==
    /\ pc = "exit"
    /\ Len(hist) >= 2
    /\ Last.trap \in Trap \ {"NoTrap"}
    /\ ~vm.is_halted
    /\ number_of_inst_to_execute > 0

(***************************************************************************)
(* C6: push(word) called when size == capacity reports failure and leaves  *)
(* size and every stack slot unchanged; when size < capacity it writes     *)
(* word at index size, increments size by 1 and changes nothing else.      *)
(***************************************************************************)
C6_Push ==
    [][CallStep("push")
          => LET word == hist'[Len(hist')].word
                 ret == hist'[Len(hist')].ret
             IN  IF vm.size = STACK_CAPACITY
                   THEN /\ ~ret.some
                        /\ vm'.size = vm.size
                        /\ vm'.data = vm.data
                        /\ vm' = vm
                   ELSE /\ ret.some
                        /\ vm'.data[vm.size] = word
                        /\ vm'.size = vm.size + 1
                        /\ \A i \in 0 .. STACK_CAPACITY - 1 :
                             i # vm.size => vm'.data[i] = vm.data[i]
                        /\ vm'.instruction_pointer = vm.instruction_pointer
                        /\ vm'.is_halted = vm.is_halted
                        /\ vm'.program = vm.program]_vars

\* a push was refused on the full stack
C6_Witness ==
    /\ hist # << >>
    /\ Last.op = "push"
    /\ Last.size = STACK_CAPACITY
    /\ ~Last.ret.some
    /\ vm.size = STACK_CAPACITY

(***************************************************************************)
(* C7: pop() called when size == 0 reports failure and leaves the whole    *)
(* machine (stack slots, size, ip, halted, program) unchanged.             *)
(***************************************************************************)
C7_PopEmpty ==
    [][(CallStep("pop") /\ vm.size = 0)
          => (~hist'[Len(hist')].ret.some /\ vm' = vm)]_vars

\* a pop was refused on a stack emptied by earlier pops, with the
\* instruction pointer moved by an execute
C7_Witness ==
    /\ Len(hist) >= 2
    /\ Last.op = "pop"
    /\ Last.size = 0
    /\ ~Last.ret.some
    /\ vm.instruction_pointer # 0
    /\ vm.size = 0

(***************************************************************************)
(* C8: for every sequence of k <= capacity pushes of words w1..wk onto an  *)
(* empty stack, the pops that follow return wk, ..., w1 in that order, and *)
(* after k pops size == 0.                                                 *)
(* Read off the history: whenever it ends with j pops that directly follow *)
(* k >= j successful pushes, the first of them onto the empty stack, the   *)
(* t-th pop returned the word of the t-th last push.                       *)
(***************************************************************************)
\* records p-k+1 .. p are k successful pushes, the first onto the empty stack
PushRun(p, k) ==
    /\ k >= 1
    /\ p - k + 1 >= 1
    /\ hist[p - k + 1].size = 0
    /\ \A i \in p - k + 1 .. p : hist[i].op = "push" /\ hist[i].ret.some

\* the last j records are pops
PopRun(j) == \A i \in Len(hist) - j + 1 .. Len(hist) : hist[i].op = "pop"

C8_LIFO ==
    \A j \in 1 .. Len(hist) :
        LET p == Len(hist) - j
            k == hist[p].size + 1
        IN  (PopRun(j) /\ p >= 1 /\ hist[p].op = "push" /\ j <= k /\ PushRun(p, k))
              => /\ \A t \in 1 .. j : hist[p + t].ret = Some(hist[p - t + 1].word)
                 /\ (j = k => vm.size = 0)

\* two different words were pushed onto the empty stack and popped again
C8_Witness ==
    /\ Len(hist) = 4
    /\ PopRun(2)
    /\ PushRun(2, 2)
    /\ hist[1].word # hist[2].word
    /\ vm.size = 0

(***************************************************************************)
(* C9: whenever execute runs Dup(n) with n >= size, every negative n and   *)
(* the empty stack included, it returns IllegalAccess and mutates no       *)
(* stack state: size and all slots are unchanged.                          *)
(***************************************************************************)
C9_DupOutOfRange ==
    [][(ExecutesInst("Dup")
          /\ (fetch(vm).operand < 0 \/ fetch(vm).operand >= vm.size))
          => /\ hist'[Len(hist')].trap = "TrapIllegalAccess"
             /\ vm'.size = vm.size
             /\ vm'.data = vm.data]_vars

\* a Dup with a negative operand was refused on a non-empty stack
C9_Witness ==
    /\ hist # << >>
    /\ Last.op = "execute"
    /\ Last.inst.inst_type = "Dup"
    /\ Last.inst.operand < 0
    /\ Last.size >= 1
    /\ Last.trap = "TrapIllegalAccess"
    /\ vm.size = Last.size

(***************************************************************************)
(* C10: whenever execute runs Dup(n) with n < size (n a depth, 0 the top), *)
(* it increases size by exactly 1, the new top equals the pre-call word n  *)
(* slots below the top, and all previously live slots are unchanged.       *)
(* (The statement as claimed; on the full stack the push is refused.)      *)
(***************************************************************************)
DupInRange ==
    /\ ExecutesInst("Dup")
    /\ fetch(vm).operand >= 0
    /\ fetch(vm).operand < vm.size

DupCopies ==
    /\ vm'.size = vm.size + 1
    /\ vm'.data[vm.size] = vm.data[vm.size - 1 - fetch(vm).operand]
    /\ \A i \in 0 .. vm.size - 1 : vm'.data[i] = vm.data[i]

C10_Original == [][DupInRange => DupCopies]_vars

(***************************************************************************)
(* C10, amended: whenever execute runs Dup(n) with 0 <= n < size and       *)
(* size < capacity, it returns NoTrap, increases size by exactly 1, the    *)
(* new top equals the pre-call word n slots below the top and all          *)
(* previously live slots are unchanged; with 0 <= n < size == capacity it  *)
(* returns StackOverflow and leaves size and every slot unchanged.         *)
(***************************************************************************)
C10_Amended ==
    [][DupInRange
          => IF vm.size < STACK_CAPACITY
               THEN hist'[Len(hist')].trap = "NoTrap" /\ DupCopies
               ELSE /\ hist'[Len(hist')].trap = "TrapStackOverflow"
                    /\ vm'.size = vm.size
                    /\ vm'.data = vm.data]_vars

\* a Dup(n) with n >= 1 copied a word that differs from the old top
C10_Witness ==
    /\ hist # << >>
    /\ Last.op = "execute"
    /\ Last.inst.inst_type = "Dup"
    /\ Last.inst.operand >= 1
    /\ Last.trap = "NoTrap"
    /\ vm.size = Last.size + 1
    /\ vm.data[vm.size - 1] # vm.data[vm.size - 2]

(***************************************************************************)
(* C11: whenever execute runs JumpIfEqual(target) with size >= 2, size is  *)
(* reduced by exactly 1 (only the top is removed) whether or not the       *)
(* branch is taken, and ip becomes target if the top two words are equal   *)
(* and ip + 1 otherwise; with size < 2 it returns StackUnderflow.          *)
(***************************************************************************)
C11_JumpIfEqual ==
    [][ExecutesInst("JMP_EQ")
          => IF vm.size >= 2
               THEN /\ hist'[Len(hist')].trap = "NoTrap"
                    /\ vm'.size = vm.size - 1
                    /\ vm'.data = vm.data
                    /\ vm'.instruction_pointer =
                         IF vm.data[vm.size - 1] = vm.data[vm.size - 2]
                           THEN fetch(vm).operand
                           ELSE vm.instruction_pointer + 1
               ELSE hist'[Len(hist')].trap = "TrapStackUnderflow"]_vars

\* a JumpIfEqual found the top two words equal and jumped to a target that
\* is not the next instruction
C11_Witness ==
    /\ hist # << >>
    /\ Last.op = "execute"
    /\ Last.inst.inst_type = "JMP_EQ"
    /\ Last.trap = "NoTrap"
    /\ Last.size >= 2
    /\ vm.size = Last.size - 1
    /\ vm.instruction_pointer = Last.inst.operand
    /\ vm.instruction_pointer # Last.ip + 1

(***************************************************************************)
(* C12: whenever execute is called with an instruction pointer that is not *)
(* a valid index into the program (negative, or >= the program's length,   *)
(* the empty program included), it returns IllegalAccess without fetching  *)
(* an instruction and leaves stack, size, ip and halted unchanged.         *)
(***************************************************************************)
C12_IllegalAccess ==
    [][(/\ CallStep("execute")
        /\ (vm.instruction_pointer < 0
              \/ vm.instruction_pointer >= Len(vm.program)))
          => /\ hist'[Len(hist')].trap = "TrapIllegalAccess"
             /\ hist'[Len(hist')].inst = NoInstruction
             /\ vm' = vm]_vars

\* execute was called with a negative instruction pointer, reached by a jump
C12_Witness ==
    /\ Len(hist) >= 2
    /\ Last.op = "execute"
    /\ Last.ip < 0
    /\ Last.trap = "TrapIllegalAccess"
    /\ vm.instruction_pointer = Last.ip
    /\ hist[Len(hist) - 1].inst.inst_type = "JMP"

(***************************************************************************)
(* C13: Jump(target) never returns a trap, for any target: it sets ip to   *)
(* target and leaves stack and size unchanged; if target is not an index   *)
(* of the program, the execute call right after it returns IllegalAccess.  *)
(***************************************************************************)
JumpedOutOfRange ==
    /\ hist # << >>
    /\ Last.op = "execute"
    /\ Last.inst.inst_type = "JMP"
    /\ (Last.inst.operand < 0 \/ Last.inst.operand >= Len(vm.program))

C13_Jump ==
    /\ [][ExecutesInst("JMP")
            => /\ hist'[Len(hist')].trap = "NoTrap"
               /\ vm'.instruction_pointer = fetch(vm).operand
               /\ vm'.data = vm.data
               /\ vm'.size = vm.size
               /\ vm'.is_halted = vm.is_halted]_vars
    /\ [][(JumpedOutOfRange /\ CallStep("execute"))
            => hist'[Len(hist')].trap = "TrapIllegalAccess"]_vars

\* a jump to target = program.length returned NoTrap and the execute call
\* right after it returned IllegalAccess
C13_Witness ==
    /\ Len(hist) >= 2
    /\ hist[Len(hist) - 1].op = "execute"
    /\ hist[Len(hist) - 1].inst.inst_type = "JMP"
    /\ hist[Len(hist) - 1].inst.operand = Len(vm.program)
    /\ hist[Len(hist) - 1].trap = "NoTrap"
    /\ Last.op = "execute"
    /\ Last.ip = Len(vm.program)
    /\ Last.trap = "TrapIllegalAccess"

(***************************************************************************)
(* C14: every execute call, from every reachable state, for every program  *)
(* and every signed 32-bit operand or stack value, returns one of the five *)
(* Trap values; the machine never panics instead, also when Plus, Minus,   *)
(* Mult or Div produce a result outside the signed 32-bit range.           *)
(***************************************************************************)
C14_AlwaysReturnsATrap ==
    /\ pc # "aborted"
    /\ \A i \in 1 .. Len(hist) :
         hist[i].op = "execute" => hist[i].trap \in Trap

(***************************************************************************)
(* C15: running [Push(0), Push(1), Dup(1), Dup(1), Plus, Jump(2)] from a   *)
(* fresh machine for any bounded number of steps, no execute call returns  *)
(* a trap while the stack is below capacity, after every Plus the live     *)
(* stack is a prefix 0, 1, 1, 2, 3, 5, ... of the Fibonacci sequence, the  *)
(* size grows by exactly 1 per 4 steps, and a run of 69 steps (the budget  *)
(* of main) ends with no trap.                                             *)
(***************************************************************************)
\* the live stack of m is 0, 1 and then each element the sum of the two below
FibPrefix(m) ==
    /\ m.size >= 2
    /\ m.data[0] = 0
    /\ m.data[1] = 1
    /\ \A k \in 2 .. m.size - 1 :
         i32_add(m.data[k - 1], m.data[k - 2])
           = [value |-> m.data[k], overflow |-> FALSE]

C15_FibonacciRun ==
    /\ \A i \in 1 .. Len(hist) :
         hist[i].size < STACK_CAPACITY => hist[i].trap = "NoTrap"
    /\ (hist # << >> /\ Last.inst.inst_type = "Plus") => FibPrefix(vm)
    /\ \A i \in 2 .. Len(hist) - 4 : SizeAfter(i + 4) = SizeAfter(i) + 1
    /\ Len(hist) = STEP_BUDGET => Last.trap = "NoTrap"

(***************************************************************************)
(* C16: calling execute on a machine whose halted flag is true (reached by *)
(* executing Halt) is a no-op: it returns NoTrap and leaves stack, size,   *)
(* ip and halted unchanged, for any number of repeated calls.              *)
(***************************************************************************)
C16_HaltedExecuteIsNoOp ==
    [][(CallStep("execute") /\ vm.is_halted)
          => /\ hist'[Len(hist')].trap = "NoTrap"
             /\ vm' = vm]_vars

\* execute was called twice on a halted machine, after the Halt that halted it
C16_Witness ==
    /\ Len(hist) >= 3
    /\ \A i \in Len(hist) - 2 .. Len(hist) :
         /\ hist[i].op = "execute"
         /\ hist[i].inst.inst_type = "Halt"
         /\ hist[i].trap = "NoTrap"
    /\ vm.is_halted
    /\ vm.instruction_pointer = hist[Len(hist) - 2].ip

(***************************************************************************)
(* C17: for every program, the loop of main stops after at most the step   *)
(* budget (69) execute calls, and it stops earlier exactly when an execute *)
(* returned a trap other than NoTrap or set halted.                        *)
(***************************************************************************)
Stopped == pc \in {"exit", "aborted"}

C17_DriverStops ==
    /\ Len(hist) <= STEP_BUDGET
    /\ (Stopped /\ Len(hist) < STEP_BUDGET)
         => /\ hist # << >>
            /\ (Last.trap \in Trap \ {"NoTrap"} \/ vm.is_halted)
    /\ (Stopped /\ Len(hist) = STEP_BUDGET) => number_of_inst_to_execute = 0

(***************************************************************************)
(* C18: whenever execute runs Plus, Minus, Mult or Div with size >= 2      *)
(* (for Div, second-from-top # 0), with a the top and b the second-from-   *)
(* top before the call, it returns NoTrap, replaces the two by the single  *)
(* element a+b, a-b, a*b or a/b (truncating toward zero), reduces size by  *)
(* 1, increments ip by 1 and leaves all lower slots unchanged.             *)
(***************************************************************************)
Arithmetic == {"Plus", "Minus", "Mult", "Div"}

\* r is the exact result of the instruction t on a and b
ExactResult(t, a, b, r) ==
    CASE t = "Plus"  -> i32_add(a, b) = [value |-> r, overflow |-> FALSE]
      [] t = "Minus" -> i32_sub(a, b) = [value |-> r, overflow |-> FALSE]
      [] t = "Mult"  -> i32_mul(a, b) = [value |-> r, overflow |-> FALSE]
      [] t = "Div"   -> ~(a = I32_MIN /\ b = -1) /\ r = i32_quot(a, b)

C18_Arithmetic ==
    [][(/\ \E t \in Arithmetic : ExecutesInst(t)
        /\ vm.size >= 2
        /\ (fetch(vm).inst_type = "Div" => vm.data[vm.size - 2] # 0))
          => /\ hist'[Len(hist')].trap = "NoTrap"
             /\ vm'.size = vm.size - 1
             /\ ExactResult(fetch(vm).inst_type, vm.data[vm.size - 1],
                            vm.data[vm.size - 2], vm'.data[vm'.size - 1])
             /\ vm'.instruction_pointer = vm.instruction_pointer + 1
             /\ \A k \in 0 .. vm.size - 3 : vm'.data[k] = vm.data[k]]_vars

(***************************************************************************)
(* C19: no execute call that runs Plus, Minus, Mult or Div ever returns    *)
(* StackOverflow: the push of the result follows two successful pops, so   *)
(* the size is at most capacity - 2 at the push.                           *)
(***************************************************************************)
C19_NoArithmeticOverflowTrap ==
    [][(\E t \in Arithmetic : ExecutesInst(t))
          => /\ hist'[Len(hist')].trap # "TrapStackOverflow"
             /\ (hist'[Len(hist')].trap = "NoTrap"
                   => vm'.size - 1 <= STACK_CAPACITY - 2)]_vars

\* an arithmetic instruction ran on a full stack and returned NoTrap
C19_Witness ==
    /\ hist # << >>
    /\ Last.op = "execute"
    /\ Last.inst.inst_type \in Arithmetic
    /\ Last.size = STACK_CAPACITY
    /\ Last.trap = "NoTrap"
    /\ vm.size = STACK_CAPACITY - 1

(***************************************************************************)
(* C20: whenever execute runs Plus, Minus, Mult or Div with size < 2 it    *)
(* returns StackUnderflow without doing the arithmetic, but ip is          *)
(* incremented by 1 and a single element is consumed (size is 0 after);    *)
(* JumpIfNonzero on an empty stack and JumpIfEqual with size < 2 return    *)
(* StackUnderflow and leave ip, size and stack unchanged.                  *)
(***************************************************************************)
C20_Underflow ==
    /\ [][((\E t \in Arithmetic : ExecutesInst(t)) /\ vm.size < 2)
            => /\ hist'[Len(hist')].trap = "TrapStackUnderflow"
               /\ vm'.instruction_pointer = vm.instruction_pointer + 1
               /\ vm'.size = 0
               /\ vm'.data = vm.data]_vars
    /\ [][(\/ ExecutesInst("JMP_IF") /\ vm.size = 0
           \/ ExecutesInst("JMP_EQ") /\ vm.size < 2)
            => /\ hist'[Len(hist')].trap = "TrapStackUnderflow"
               /\ vm' = vm]_vars

\* an arithmetic instruction found one element, consumed it and moved on
C20_Witness ==
    /\ hist # << >>
    /\ Last.op = "execute"
    /\ Last.inst.inst_type \in Arithmetic
    /\ Last.size = 1
    /\ Last.trap = "TrapStackUnderflow"
    /\ vm.size = 0
    /\ vm.instruction_pointer = Last.ip + 1

====
